---- MODULE Spec2Model ----
(***************************************************************************)
(* A model of pycel's excelutil.py: the coercion engine                    *)
(* (build_operator_operand_fixup) and the coordinate model / notation      *)
(* resolver (AddressRange, AddressCell, split_sheetname, range_boundaries).*)
(*                                                                         *)
(* Python text is a sequence of one-character strings, so that parsing,    *)
(* formatting, lower-casing and ordering are computed rather than assumed. *)
(* A Python value is a record [t, n, d, s]: t is the Python type, n/d the  *)
(* number (d = 1 for int and bool), s the text.                            *)
(***************************************************************************)
EXTENDS Integers, Sequences, FiniteSets, TLC

\* The evaluator's call of fixup
VARIABLES
    call_left,     \* the operands and operator of the call in hand
    call_op,          \*   (op = "" when no call is in hand)
    call_right,
    result,      \* what the call returned or raised
    captured     \* its calls of capture_error_state, in order

\* The caller of the coordinate model
VARIABLES
    held,       \* the AddressCell or AddressRange in hand, or NoValue
    previous,    \* the value the last operation was applied to
    request,     \* the last operation and its arguments
    returned,    \* what it returned or raised
    steps        \* the operations applied since the value was created

fixup_vars == << call_left, call_op, call_right, result, captured >>

addr_vars == << held, previous, request, returned, steps >>

vars == << call_left, call_op, call_right, result, captured,
           held, previous, request, returned, steps >>

(* ------------------------------------------------------------------ *)
(* Characters                                                          *)
(* ------------------------------------------------------------------ *)

\* The printable ASCII characters from code 33 to 122, in code order.
\* Characters the model's texts never hold are named by a placeholder.
AsciiTable ==
    << "!", "<dquote>", "#", "$", "<pct>", "&", "'", "(", ")", "*", "+", ",",
       "-", ".", "/",
       "0", "1", "2", "3", "4", "5", "6", "7", "8", "9",
       ":", ";", "<", "=", ">", "?", "@",
       "A", "B", "C", "D", "E", "F", "G", "H", "I", "J", "K", "L", "M",
       "N", "O", "P", "Q", "R", "S", "T", "U", "V", "W", "X", "Y", "Z",
       "[", "<bslash>", "]", "^", "_", "<btick>",
       "a", "b", "c", "d", "e", "f", "g", "h", "i", "j", "k", "l", "m",
       "n", "o", "p", "q", "r", "s", "t", "u", "v", "w", "x", "y", "z" >>

\* ord(c)
Ord(c) == 32 + (CHOOSE i \in 1..Len(AsciiTable) : AsciiTable[i] = c)

\* chr(k)
Chr(k) == AsciiTable[k - 32]

IsDigit(c) == c \in {"0", "1", "2", "3", "4", "5", "6", "7", "8", "9"}

IsUpper(c) == Ord(c) \in 65..90

IsLetter(c) == Ord(c) \in (65..90) \cup (97..122)

DigitVal(c) == Ord(c) - 48

\* str.lower() on one character, and on a text
LowerChar(c) == IF IsUpper(c) THEN Chr(Ord(c) + 32) ELSE c

Lower(s) == [i \in 1..Len(s) |-> LowerChar(s[i])]

\* str.upper() on one character
UpperChar(c) == IF Ord(c) \in 97..122 THEN Chr(Ord(c) - 32) ELSE c

\* s[i:] and s[:i] with 1-based i: the text from position i, and before it
Drop(s, i) == SubSeq(s, i, Len(s))

Take(s, i) == SubSeq(s, 1, i)

\* Python's ordering of two texts (by code point, then by length)
RECURSIVE StrLess(_, _)
StrLess(a, b) ==
    IF b = <<>> THEN FALSE
    ELSE IF a = <<>> THEN TRUE
    ELSE IF a[1] # b[1] THEN Ord(a[1]) < Ord(b[1])
    ELSE StrLess(Tail(a), Tail(b))

\* The position of the first c in s, or 0
IndexOf(s, c) ==
    IF \E i \in 1..Len(s) : s[i] = c
    THEN CHOOSE i \in 1..Len(s) : s[i] = c /\ \A j \in 1..(i - 1) : s[j] # c
    ELSE 0

Contains(s, c) == \E i \in 1..Len(s) : s[i] = c

\* The decimal digits of a natural number: str(n) for n >= 0
RECURSIVE NatStr(_)
NatStr(n) ==
    IF n < 10 THEN << Chr(48 + n) >>
    ELSE Append(NatStr(n \div 10), Chr(48 + (n % 10)))

\* str(n) for an int
IntStr(n) == IF n < 0 THEN << "-" >> \o NatStr(-n) ELSE NatStr(n)

\* The number a text of digits denotes
RECURSIVE DigitsVal(_)
DigitsVal(s) ==
    IF s = <<>> THEN 0
    ELSE 10 * DigitsVal(Take(s, Len(s) - 1)) + DigitVal(s[Len(s)])

AllDigits(s) == \A i \in 1..Len(s) : IsDigit(s[i])

(* ------------------------------------------------------------------ *)
(* Python values                                                       *)
(* ------------------------------------------------------------------ *)

Abs(n) == IF n < 0 THEN -n ELSE n

RECURSIVE Gcd(_, _)
Gcd(a, b) == IF b = 0 THEN a ELSE Gcd(b, a % b)

RECURSIVE Power(_, _)
Power(b, e) == IF e = 0 THEN 1 ELSE b * Power(b, e - 1)

IntV(n) == [t |-> "int", n |-> n, d |-> 1, s |-> <<>>]

\* The float n/d (d # 0), in lowest terms with a positive denominator
FloatV(n, d) ==
    LET g == Gcd(Abs(n), Abs(d))
        sg == IF d < 0 THEN -1 ELSE 1
    IN [t |-> "float", n |-> sg * (n \div g), d |-> sg * (d \div g), s |-> <<>>]

BoolV(b) == [t |-> "bool", n |-> IF b THEN 1 ELSE 0, d |-> 1, s |-> <<>>]

StrV(s) == [t |-> "str", n |-> 0, d |-> 1, s |-> s]

NoneV == [t |-> "NoneType", n |-> 0, d |-> 1, s |-> <<>>]

\* A float that is no ratio of integers (an irrational power): only its
\* type is kept.  A complex number likewise.
InexactFloat == [t |-> "float", n |-> 0, d |-> 0, s |-> <<>>]

ComplexV == [t |-> "complex", n |-> 0, d |-> 0, s |-> <<>>]

IsStr(v) == v.t = "str"

IsNum(v) == v.t \in {"int", "float", "bool"}

\* int and bool: the types Python's integer-only operators accept
IsIntLike(v) == v.t \in {"int", "bool"}

\* The type of an arithmetic result
NumType(a, b) == IF IsIntLike(a) /\ IsIntLike(b) THEN "int" ELSE "float"

NumV(ty, n, d) == IF ty = "int" THEN IntV(n \div d) ELSE FloatV(n, d)

\* floor(n/d) for d # 0
FloorQ(n, d) == IF d < 0 THEN (-n) \div (-d) ELSE n \div d

\* a == b in Python
PyEq(a, b) ==
    IF IsNum(a) /\ IsNum(b) THEN a.n * b.d = b.n * a.d
    ELSE IF IsStr(a) /\ IsStr(b) THEN a.s = b.s
    ELSE a.t = "NoneType" /\ b.t = "NoneType"

\* a < b for two numbers
NumLess(a, b) == a.n * b.d < b.n * a.d

\* The outcome of a Python expression: a value, or a raised exception
Ok(v) == [k |-> "ok", v |-> v, e |-> ""]

Raise(e) == [k |-> "raise", v |-> NoneV, e |-> e]

(* ------------------------------------------------------------------ *)
(* Constants of excelutil.py                                           *)
(* ------------------------------------------------------------------ *)

DIV0 == << "#", "D", "I", "V", "/", "0", "!" >>

VALUE_ERROR == << "#", "V", "A", "L", "U", "E", "!" >>

\* The literal '#EMPTY!' of fixup
EMPTY == << "#", "E", "M", "P", "T", "Y", "!" >>

MAX_COL == 16384

MAX_ROW == 1048576

\* The keys of PYTHON_AST_OPERATORS
PYTHON_AST_OPERATORS ==
    { "Eq", "Lt", "Gt", "LtE", "GtE", "NotEq", "Add", "Sub", "Mult", "Div",
      "FloorDiv", "Mod", "Pow", "LShift", "RShift", "BitOr", "BitXor",
      "BitAnd", "MatMult" }

(* ------------------------------------------------------------------ *)
(* The primitives of PYTHON_AST_OPERATORS, with the exceptions they    *)
(* raise.  The model's texts hold no '%', so text % x never formats.   *)
(* ------------------------------------------------------------------ *)

\* a | b on Python's unbounded two's-complement integers
RECURSIVE IntOr(_, _)
IntOr(a, b) ==
    IF a = 0 THEN b
    ELSE IF b = 0 THEN a
    ELSE IF a = -1 \/ b = -1 THEN -1
    ELSE 2 * IntOr(a \div 2, b \div 2)
         + (IF (a % 2) + (b % 2) > 0 THEN 1 ELSE 0)

\* a ^ b on Python's unbounded two's-complement integers
RECURSIVE IntXor(_, _)
IntXor(a, b) ==
    IF a = 0 THEN b
    ELSE IF b = 0 THEN a
    ELSE IF a = -1 THEN -b - 1
    ELSE IF b = -1 THEN -a - 1
    ELSE 2 * IntXor(a \div 2, b \div 2) + (((a % 2) + (b % 2)) % 2)

\* s * k for a text s and an int k
RECURSIVE Repeat(_, _)
Repeat(s, k) == IF k <= 0 THEN <<>> ELSE s \o Repeat(s, k - 1)

\* operator.add
PyAdd(a, b) ==
    IF IsNum(a) /\ IsNum(b)
    THEN Ok(NumV(NumType(a, b), a.n * b.d + b.n * a.d, a.d * b.d))
    ELSE IF IsStr(a) /\ IsStr(b) THEN Ok(StrV(a.s \o b.s))
    ELSE Raise("TypeError")

\* operator.sub
PySub(a, b) ==
    IF IsNum(a) /\ IsNum(b)
    THEN Ok(NumV(NumType(a, b), a.n * b.d - b.n * a.d, a.d * b.d))
    ELSE Raise("TypeError")

\* operator.mul
PyMul(a, b) ==
    IF IsNum(a) /\ IsNum(b)
    THEN Ok(NumV(NumType(a, b), a.n * b.n, a.d * b.d))
    ELSE IF IsStr(a) /\ IsIntLike(b) THEN Ok(StrV(Repeat(a.s, b.n)))
    ELSE IF IsIntLike(a) /\ IsStr(b) THEN Ok(StrV(Repeat(b.s, a.n)))
    ELSE Raise("TypeError")

\* operator.truediv
PyTrueDiv(a, b) ==
    IF IsNum(a) /\ IsNum(b)
    THEN IF b.n = 0 THEN Raise("ZeroDivisionError")
         ELSE Ok(FloatV(a.n * b.d, a.d * b.n))
    ELSE Raise("TypeError")

\* operator.floordiv
PyFloorDiv(a, b) ==
    IF IsNum(a) /\ IsNum(b)
    THEN IF b.n = 0 THEN Raise("ZeroDivisionError")
         ELSE Ok(NumV(NumType(a, b), FloorQ(a.n * b.d, a.d * b.n), 1))
    ELSE Raise("TypeError")

\* operator.mod: the remainder takes the sign of the divisor
PyMod(a, b) ==
    IF IsNum(a) /\ IsNum(b)
    THEN IF b.n = 0 THEN Raise("ZeroDivisionError")
         ELSE LET q == FloorQ(a.n * b.d, a.d * b.n)
              IN Ok(NumV(NumType(a, b),
                         a.n * b.d - q * b.n * a.d, a.d * b.d))
    ELSE Raise("TypeError")

\* operator.pow
PyPow(a, b) ==
    IF ~(IsNum(a) /\ IsNum(b)) THEN Raise("TypeError")
    ELSE IF b.d = 1
    THEN \* an integral exponent
         IF b.n >= 0
         THEN Ok(NumV(NumType(a, b), Power(a.n, b.n), Power(a.d, b.n)))
         ELSE IF a.n = 0 THEN Raise("ZeroDivisionError")
         ELSE Ok(FloatV(Power(a.d, -b.n), Power(a.n, -b.n)))
    ELSE \* a fractional exponent
         IF a.n = 0
         THEN IF b.n > 0 THEN Ok(FloatV(0, 1)) ELSE Raise("ZeroDivisionError")
         ELSE IF a.n = a.d THEN Ok(FloatV(1, 1))
         ELSE IF a.n > 0 THEN Ok(InexactFloat)
         ELSE Ok(ComplexV)

\* operator.lshift
PyLShift(a, b) ==
    IF IsIntLike(a) /\ IsIntLike(b)
    THEN IF b.n < 0 THEN Raise("ValueError")
         ELSE Ok(IntV(a.n * Power(2, b.n)))
    ELSE Raise("TypeError")

\* operator.rshift
PyRShift(a, b) ==
    IF IsIntLike(a) /\ IsIntLike(b)
    THEN IF b.n < 0 THEN Raise("ValueError")
         ELSE Ok(IntV(a.n \div Power(2, b.n)))
    ELSE Raise("TypeError")

\* operator.or_
PyOr(a, b) ==
    IF IsIntLike(a) /\ IsIntLike(b)
    THEN Ok([IntV(IntOr(a.n, b.n)) EXCEPT
                !.t = IF a.t = "bool" /\ b.t = "bool" THEN "bool" ELSE "int"])
    ELSE Raise("TypeError")

\* operator.xor
PyXor(a, b) ==
    IF IsIntLike(a) /\ IsIntLike(b)
    THEN Ok([IntV(IntXor(a.n, b.n)) EXCEPT
                !.t = IF a.t = "bool" /\ b.t = "bool" THEN "bool" ELSE "int"])
    ELSE Raise("TypeError")

\* operator.lt, .gt, .le, .ge: numbers by value, texts by code point
PyCompare(op, a, b) ==
    IF IsNum(a) /\ IsNum(b)
    THEN Ok(BoolV(CASE op = "Lt" -> NumLess(a, b)
                    [] op = "Gt" -> NumLess(b, a)
                    [] op = "LtE" -> ~NumLess(b, a)
                    [] op = "GtE" -> ~NumLess(a, b)))
    ELSE IF IsStr(a) /\ IsStr(b)
    THEN Ok(BoolV(CASE op = "Lt" -> StrLess(a.s, b.s)
                    [] op = "Gt" -> StrLess(b.s, a.s)
                    [] op = "LtE" -> ~StrLess(b.s, a.s)
                    [] op = "GtE" -> ~StrLess(a.s, b.s)))
    ELSE Raise("TypeError")

\* PYTHON_AST_OPERATORS[op](a, b): a key the table lacks raises KeyError,
\* and no type of the model defines matmul
Primitive(op, a, b) ==
    CASE op = "Eq" -> Ok(BoolV(PyEq(a, b)))
      [] op = "NotEq" -> Ok(BoolV(~PyEq(a, b)))
      [] op \in {"Lt", "Gt", "LtE", "GtE"} -> PyCompare(op, a, b)
      [] op = "Add" -> PyAdd(a, b)
      [] op = "Sub" -> PySub(a, b)
      [] op = "Mult" -> PyMul(a, b)
      [] op = "Div" -> PyTrueDiv(a, b)
      [] op = "FloorDiv" -> PyFloorDiv(a, b)
      [] op = "Mod" -> PyMod(a, b)
      [] op = "Pow" -> PyPow(a, b)
      [] op = "LShift" -> PyLShift(a, b)
      [] op = "RShift" -> PyRShift(a, b)
      [] op = "BitOr" -> PyOr(a, b)
      [] op = "BitXor" -> PyXor(a, b)
      [] op = "BitAnd" ->
            IF IsIntLike(a) /\ IsIntLike(b)
            THEN Ok(IntV(a.n + b.n - IntOr(a.n, b.n)))
            ELSE Raise("TypeError")
      [] op = "MatMult" -> Raise("TypeError")
      [] OTHER -> Raise("KeyError")

(* ------------------------------------------------------------------ *)
(* coerce_to_number and str()                                          *)
(* ------------------------------------------------------------------ *)

\* A text int() accepts: an optional sign and one or more digits (the
\* model's texts hold no blanks and no underscores)
IsIntLiteral(s) ==
    LET body == IF s # <<>> /\ s[1] \in {"+", "-"} THEN Tail(s) ELSE s
    IN body # <<>> /\ AllDigits(body)

IntLiteralVal(s) ==
    IF s[1] = "-" THEN -DigitsVal(Tail(s))
    ELSE IF s[1] = "+" THEN DigitsVal(Tail(s))
    ELSE DigitsVal(s)

\* A text float() accepts: an optional sign, digits with at most one '.',
\* at least one digit (the model's texts spell no exponent, inf or nan)
IsFloatLiteral(s) ==
    LET body == IF s # <<>> /\ s[1] \in {"+", "-"} THEN Tail(s) ELSE s
        dot == IndexOf(body, ".")
        whole == IF dot = 0 THEN body ELSE Take(body, dot - 1)
        frac == IF dot = 0 THEN <<>> ELSE Drop(body, dot + 1)
    IN /\ AllDigits(whole)
       /\ AllDigits(frac)
       /\ Len(whole) + Len(frac) > 0

FloatLiteralVal(s) ==
    LET neg == s[1] = "-"
        body == IF s[1] \in {"+", "-"} THEN Tail(s) ELSE s
        dot == IndexOf(body, ".")
        whole == IF dot = 0 THEN body ELSE Take(body, dot - 1)
        frac == IF dot = 0 THEN <<>> ELSE Drop(body, dot + 1)
        mag == DigitsVal(whole \o frac)
    IN FloatV(IF neg THEN -mag ELSE mag, Power(10, Len(frac)))

\* is_number(s): float(s) does not raise
is_number(v) == IsNum(v) \/ (IsStr(v) /\ IsFloatLiteral(v.s))

\* coerce_to_number(value): the value, or the exception 1 / 0 raises
coerce_to_number(value) ==
    IF ~IsStr(value)
    THEN IF is_number(value) /\ value.d = 1
         THEN Ok(IntV(value.n))
         ELSE Ok(value)
    ELSE IF value.s = DIV0 THEN Raise("ZeroDivisionError")
    ELSE IF ~Contains(value.s, ".") /\ IsIntLiteral(value.s)
    THEN Ok(IntV(IntLiteralVal(value.s)))
    ELSE IF IsFloatLiteral(value.s) THEN Ok(FloatLiteralVal(value.s))
    ELSE Ok(value)

\* The least k >= 1 with d dividing 10^k (d has no prime factor but 2, 5)
RECURSIVE DecimalPlaces(_, _)
DecimalPlaces(d, k) ==
    IF Power(10, k) % d = 0 \/ k >= 12 THEN k ELSE DecimalPlaces(d, k + 1)

\* Digits of n, zero-padded on the left to k places
RECURSIVE PadDigits(_, _)
PadDigits(n, k) ==
    IF k = 0 THEN <<>>
    ELSE Append(PadDigits(n \div 10, k - 1), Chr(48 + (n % 10)))

\* repr of the float n/d in plain decimal notation
FloatStr(v) ==
    LET k == DecimalPlaces(v.d, 1)
        m == (Abs(v.n) * Power(10, k)) \div v.d
    IN (IF v.n < 0 THEN << "-" >> ELSE <<>>)
       \o NatStr(m \div Power(10, k)) \o << "." >>
       \o PadDigits(m % Power(10, k), k)

\* str(value)
PyStr(v) ==
    CASE v.t = "str" -> v.s
      [] v.t = "int" -> IntStr(v.n)
      [] v.t = "float" -> FloatStr(v)
      [] v.t = "bool" -> IF v.n = 1 THEN << "T", "r", "u", "e" >>
                         ELSE << "F", "a", "l", "s", "e" >>
      [] OTHER -> << "N", "o", "n", "e" >>

(* ------------------------------------------------------------------ *)
(* build_operator_operand_fixup.fixup                                  *)
(* ------------------------------------------------------------------ *)

\* x in (left_op, right_op), for a text constant x
OperandIs(x, left_op, right_op) ==
    PyEq(StrV(x), left_op) \/ PyEq(StrV(x), right_op)

\* v in (None, '#EMPTY!')
IsBlank(v) == PyEq(v, NoneV) \/ PyEq(v, StrV(EMPTY))

\* ErrorDominance with the two checks in the other order
ErrorDominance_value_first(left_op, right_op) ==
    IF OperandIs(VALUE_ERROR, left_op, right_op) THEN StrV(VALUE_ERROR)
    ELSE IF OperandIs(DIV0, left_op, right_op) THEN StrV(DIV0)
    ELSE NoneV

\* The error code fixup returns before it looks at the operator, or NoneV
ErrorDominance(left_op, right_op) ==
    IF OperandIs(DIV0, left_op, right_op) THEN StrV(DIV0)
    ELSE IF OperandIs(VALUE_ERROR, left_op, right_op) THEN StrV(VALUE_ERROR)
    ELSE NoneV

\* BlankSubstitute with 0 for every empty operand
BlankSubstitute_zero(v, other) == IF IsBlank(v) THEN IntV(0) ELSE v

\* The operand fixup computes with in place of operand v, given the other
\* operand as it stands when v is looked at
BlankSubstitute(v, other) ==
    IF IsBlank(v)
    THEN IF ~IsStr(other) \/ other.s = EMPTY THEN IntV(0) ELSE StrV(<<>>)
    ELSE v

\* OperatorCoercion with equality coerced to numbers like the arithmetic
\* operators
OperatorCoercion_numeric_equality(op, left_op, right_op) ==
    LET cl == coerce_to_number(left_op)
        cr == coerce_to_number(right_op)
    IN IF op \in {"Eq", "NotEq"} /\ IsStr(left_op) /\ IsStr(right_op)
       THEN [k |-> "ok", e |-> "", op |-> op,
             l |-> StrV(Lower(left_op.s)), r |-> StrV(Lower(right_op.s))]
       ELSE IF cl.k = "raise"
       THEN [k |-> "raise", e |-> cl.e, op |-> op,
             l |-> left_op, r |-> right_op]
       ELSE IF cr.k = "raise"
       THEN [k |-> "raise", e |-> cr.e, op |-> op,
             l |-> left_op, r |-> right_op]
       ELSE IF op = "BitAnd"
       THEN [k |-> "ok", e |-> "", op |-> "Add",
             l |-> StrV(PyStr(cl.v)), r |-> StrV(PyStr(cr.v))]
       ELSE [k |-> "ok", e |-> "", op |-> op, l |-> cl.v, r |-> cr.v]

\* The operator-specific coercion: the operands and the operator the
\* primitive is called with, or the exception coerce_to_number raises
OperatorCoercion(op, left_op, right_op) ==
    LET cl == coerce_to_number(left_op)
        cr == coerce_to_number(right_op)
    IN IF op \in {"Eq", "NotEq"}
       THEN IF IsStr(left_op) /\ IsStr(right_op)
            THEN [k |-> "ok", e |-> "", op |-> op,
                  l |-> StrV(Lower(left_op.s)), r |-> StrV(Lower(right_op.s))]
            ELSE [k |-> "ok", e |-> "", op |-> op,
                  l |-> left_op, r |-> right_op]
       ELSE IF cl.k = "raise"
       THEN [k |-> "raise", e |-> cl.e, op |-> op,
             l |-> left_op, r |-> right_op]
       ELSE IF cr.k = "raise"
       THEN [k |-> "raise", e |-> cr.e, op |-> op,
             l |-> left_op, r |-> right_op]
       ELSE IF op = "BitAnd"
       THEN [k |-> "ok", e |-> "", op |-> "Add",
             l |-> StrV(PyStr(cl.v)), r |-> StrV(PyStr(cr.v))]
       ELSE [k |-> "ok", e |-> "", op |-> op, l |-> cl.v, r |-> cr.v]

\* One call of capture_error_state
Diagnostic(hint, msg, left_op, op, right_op) ==
    [hint |-> hint, msg |-> msg, left |-> left_op, op |-> op,
     right |-> right_op]

\* Dispatch with no call of capture_error_state
Dispatch_silent(op, left_op, right_op) ==
    LET res == Primitive(op, left_op, right_op)
    IN IF res.k = "ok" THEN [ret |-> res, diag |-> <<>>]
       ELSE IF res.e = "ZeroDivisionError"
       THEN [ret |-> Ok(StrV(DIV0)), diag |-> <<>>]
       ELSE IF res.e = "TypeError"
       THEN [ret |-> Ok(StrV(VALUE_ERROR)), diag |-> <<>>]
       ELSE [ret |-> res, diag |-> <<>>]

\* The try block of fixup: the primitive's value, or the error code that
\* stands for the ZeroDivisionError or TypeError it raised (with the
\* diagnostic); any other exception leaves fixup
Dispatch(op, left_op, right_op) ==
    LET res == Primitive(op, left_op, right_op)
        d == << Diagnostic(TRUE, "Values", left_op, op, right_op) >>
    IN IF res.k = "ok" THEN [ret |-> res, diag |-> <<>>]
       ELSE IF res.e = "ZeroDivisionError"
       THEN [ret |-> Ok(StrV(DIV0)), diag |-> d]
       ELSE IF res.e = "TypeError"
       THEN [ret |-> Ok(StrV(VALUE_ERROR)), diag |-> d]
       ELSE [ret |-> res, diag |-> <<>>]

\* The multiplication check of fixup
MultTypeError(op, left_op, right_op) ==
    op = "Mult" /\ (IsStr(left_op) \/ IsStr(right_op))

\* fixup(left_op, op, right_op): what it returns or raises, and the calls
\* it makes of capture_error_state, in order
fixup(left_op, op, right_op) ==
    LET dom == ErrorDominance(left_op, right_op)
        l1 == BlankSubstitute(left_op, right_op)
        r1 == BlankSubstitute(right_op, l1)
        c == OperatorCoercion(op, l1, r1)
    IN IF dom # NoneV THEN [ret |-> Ok(dom), diag |-> <<>>]
       ELSE IF c.k = "raise" THEN [ret |-> Raise(c.e), diag |-> <<>>]
       ELSE IF MultTypeError(c.op, c.l, c.r)
       THEN [ret |-> Ok(StrV(VALUE_ERROR)),
             diag |-> << Diagnostic(FALSE, "Cannot multiple type",
                                    c.l, c.op, c.r) >>]
       ELSE Dispatch(c.op, c.l, c.r)

(* ------------------------------------------------------------------ *)
(* The openpyxl collaborators: column letters and the absolute-notation *)
(* boundary parser                                                     *)
(* ------------------------------------------------------------------ *)

\* None as a component of a boundary tuple (no component is negative)
Null == -1

\* The column letters of a positive index: base 26 with no zero digit
RECURSIVE ColumnLetters(_)
ColumnLetters(n) ==
    IF n <= 0 THEN <<>>
    ELSE ColumnLetters((n - 1) \div 26) \o << Chr(65 + ((n - 1) % 26)) >>

\* openpyxl's get_column_letter: the indices of one to three letters
get_column_letter(col_idx) ==
    IF col_idx >= 1 /\ col_idx <= 18278
    THEN Ok(ColumnLetters(col_idx))
    ELSE Raise("ValueError")

\* openpyxl's column_index_from_string, for a text of letters
RECURSIVE column_index_from_string(_)
column_index_from_string(s) ==
    IF s = <<>> THEN 0
    ELSE 26 * column_index_from_string(Take(s, Len(s) - 1))
         + (Ord(UpperChar(s[Len(s)])) - 64)

\* The number of characters of s from position i on, and at most max, that
\* are letters / digits
LetterRun(s, i, max) ==
    CHOOSE n \in 0..max :
        /\ \A j \in i..(i + n - 1) : j <= Len(s) /\ IsLetter(s[j])
        /\ n = max \/ i + n > Len(s) \/ ~IsLetter(s[i + n])

DigitRun(s, i) ==
    CHOOSE n \in 0..(Len(s) + 1) :
        /\ \A j \in i..(i + n - 1) : j <= Len(s) /\ IsDigit(s[j])
        /\ i + n > Len(s) \/ ~IsDigit(s[i + n])

\* An optional '$' at position i, skipped
SkipDollar(s, i) == IF i <= Len(s) /\ s[i] = "$" THEN i + 1 ELSE i

\* The groups of one corner of ABSOLUTE_RE: the letters at i1..i2-1, and
\* the digits from i3 on
CornerGroups(s, i1, i2, i3) ==
    [col |-> SubSeq(s, i1, i2 - 1),
     row |-> SubSeq(s, i3, i3 + DigitRun(s, i3) - 1),
     next |-> i3 + DigitRun(s, i3)]

CornerRow(s, i1, i2) == CornerGroups(s, i1, i2, SkipDollar(s, i2))

CornerColumn(s, i1) == CornerRow(s, i1, i1 + LetterRun(s, i1, 3))

\* One corner of ABSOLUTE_RE from position i: [$]?letters{1,3}?[$]?digits?
AbsoluteCorner(s, i) == CornerColumn(s, SkipDollar(s, i))

\* The optional second corner of ABSOLUTE_RE, after the ':' that follows
\* the first
SecondCorner(s, c1) ==
    IF c1.next <= Len(s) /\ s[c1.next] = ":"
    THEN AbsoluteCorner(s, c1.next + 1)
    ELSE [col |-> <<>>, row |-> <<>>, next |-> c1.next]

\* The boundaries of a text whose corners are c1 and c2: the match must
\* reach the end of the text, and a range must give both columns and both
\* rows, or only columns, or only rows
MatchBoundaries(s, c1, c2) ==
    LET sep == c1.next <= Len(s) /\ s[c1.next] = ":"
        has == << c1.col # <<>>, c1.row # <<>>, c2.col # <<>>, c2.row # <<>> >>
        min_col == IF has[1] THEN column_index_from_string(c1.col) ELSE Null
        min_row == IF has[2] THEN DigitsVal(c1.row) ELSE Null
        max_col == IF has[3] THEN column_index_from_string(c2.col)
                   ELSE min_col
        max_row == IF has[4] THEN DigitsVal(c2.row) ELSE min_row
    IN IF c2.next # Len(s) + 1 THEN Raise("ValueError")
       ELSE IF sep /\ ~( \/ (has[1] /\ has[2] /\ has[3] /\ has[4])
                         \/ (has[1] /\ has[3] /\ ~has[2] /\ ~has[4])
                         \/ (has[2] /\ has[4] /\ ~has[1] /\ ~has[3]) )
       THEN Raise("ValueError")
       ELSE Ok(<< min_col, min_row, max_col, max_row >>)

MatchCorners(s, c1) == MatchBoundaries(s, c1, SecondCorner(s, c1))

\* openpyxl's range_boundaries: (min_col, min_row, max_col, max_row) with
\* Null for what the text leaves out, or ValueError
openpyxl_range_boundaries(s) == MatchCorners(s, AbsoluteCorner(s, 1))

(* ------------------------------------------------------------------ *)
(* Sheet names                                                         *)
(* ------------------------------------------------------------------ *)

\* s.replace("''", "'")
RECURSIVE UnescapeQuotes(_)
UnescapeQuotes(s) ==
    IF Len(s) < 2 THEN s
    ELSE IF s[1] = "'" /\ s[2] = "'"
    THEN << "'" >> \o UnescapeQuotes(Drop(s, 3))
    ELSE << s[1] >> \o UnescapeQuotes(Tail(s))

unquote_sheetname(sheetname) ==
    IF sheetname # <<>> /\ sheetname[1] = "'"
       /\ sheetname[Len(sheetname)] = "'"
    THEN UnescapeQuotes(SubSeq(sheetname, 2, Len(sheetname) - 1))
    ELSE sheetname

\* split_sheetname(address, sheet): [sheet, address], or the exception
split_sheetname(address, sheet) ==
    LET bang == IndexOf(address, "!")
        address_part == Drop(address, bang + 1)
        sh == unquote_sheetname(Take(address, bang - 1))
    IN IF bang = 0
       THEN Ok([sheet |-> sheet, address |-> address])
       ELSE IF Contains(address_part, "!") THEN Raise("AssertionError")
       ELSE IF sh # <<>> /\ sheet # <<>> /\ sh # sheet
       THEN Raise("ValueError")
       ELSE Ok([sheet |-> IF sheet # <<>> THEN sheet ELSE sh,
                address |-> address_part])

(* ------------------------------------------------------------------ *)
(* range_boundaries: the notation resolver                             *)
(* ------------------------------------------------------------------ *)

\* The anchor `cell` of a resolution: absent (None), or an object with
\* row, col_idx and a workbook (excel)
NoCell == [present |-> FALSE, row |-> 0, col_idx |-> 0]

AnchorCell(row, col_idx) == [present |-> TRUE, row |-> row, col_idx |-> col_idx]

\* cell.excel.defined_names of the model's workbook: name -> (text, sheet).
\* Total is an ordinary name; R is a name whose text the row-column
\* pattern also matches.
DefinedNames ==
    [name \in { << "T", "o", "t", "a", "l" >>, << "R" >> } |->
        IF name = << "R" >>
        THEN [ref |-> << "C", "3" >>, sheet |-> << "S" >>]
        ELSE [ref |-> << "A", "1", ":", "B", "2" >>, sheet |-> << "T" >>]]

\* One item of R1C1_RANGE_RE at position i: the letter, then nothing, or
\* digits, or a bracketed signed number.  text is the group's text, <<>>
\* when the item is absent.
R1C1Item(s, i, letter) ==
    IF ~(i <= Len(s) /\ s[i] = letter)
    THEN [text |-> <<>>, next |-> i]
    ELSE LET nd == DigitRun(s, i + 1)
             j == IF i + 2 <= Len(s) /\ s[i + 2] = "-" THEN i + 3 ELSE i + 2
             nb == DigitRun(s, j)
             bracket == /\ i + 1 <= Len(s) /\ s[i + 1] = "["
                        /\ nb > 0
                        /\ j + nb <= Len(s) /\ s[j + nb] = "]"
         IN IF nd > 0 THEN [text |-> SubSeq(s, i, i + nd), next |-> i + nd + 1]
            ELSE IF bracket
            THEN [text |-> SubSeq(s, i, j + nb), next |-> j + nb + 1]
            ELSE [text |-> << letter >>, next |-> i + 1]

\* R1C1_RANGE_RE.match(address): the four groups, or ok = FALSE
R1C1_RANGE_RE(s) ==
    LET min_row == R1C1Item(s, 1, "R")
        min_col == R1C1Item(s, min_row.next, "C")
        sep == min_col.next <= Len(s) /\ s[min_col.next] = ":"
        max_row == IF sep THEN R1C1Item(s, min_col.next + 1, "R")
                   ELSE [text |-> <<>>, next |-> min_col.next]
        max_col == R1C1Item(s, max_row.next, "C")
    IN [ok |-> max_col.next = Len(s) + 1,
        min_col |-> min_col.text, min_row |-> min_row.text,
        max_col |-> max_col.text, max_row |-> max_row.text]

\* int(text) for an optional '-' and digits
SignedVal(s) == IF s[1] = "-" THEN -DigitsVal(Tail(s)) ELSE DigitsVal(s)

\* from_relative_to_absolute with the offset taken modulo the sheet size
\* and no shift to the 1-based range
from_relative_to_absolute_zero_based(r1_or_c1, cell) ==
    IF r1_or_c1[Len(r1_or_c1)] # "]"
    THEN IF Len(r1_or_c1) > 1
         THEN Ok(DigitsVal(Tail(r1_or_c1)))
         ELSE IF ~cell.present THEN Raise("AssertionError")
         ELSE IF UpperChar(r1_or_c1[1]) = "R" THEN Ok(cell.row)
         ELSE Ok(cell.col_idx)
    ELSE IF ~cell.present THEN Raise("AssertionError")
    ELSE LET delta == SignedVal(SubSeq(r1_or_c1, 3, Len(r1_or_c1) - 1))
         IN IF LowerChar(r1_or_c1[1]) = "r"
            THEN Ok((cell.row + delta) % MAX_ROW)
            ELSE Ok((cell.col_idx + delta) % MAX_COL)

\* from_relative_to_absolute(r1_or_c1), given the anchor
from_relative_to_absolute(r1_or_c1, cell) ==
    IF r1_or_c1[Len(r1_or_c1)] # "]"
    THEN IF Len(r1_or_c1) > 1
         THEN Ok(DigitsVal(Tail(r1_or_c1)))
         ELSE IF ~cell.present THEN Raise("AssertionError")
         ELSE IF UpperChar(r1_or_c1[1]) = "R" THEN Ok(cell.row)
         ELSE Ok(cell.col_idx)
    ELSE IF ~cell.present THEN Raise("AssertionError")
    ELSE LET delta == SignedVal(SubSeq(r1_or_c1, 3, Len(r1_or_c1) - 1))
         IN IF LowerChar(r1_or_c1[1]) = "r"
            THEN Ok(((cell.row + delta - 1) % MAX_ROW) + 1)
            ELSE Ok(((cell.col_idx + delta - 1) % MAX_COL) + 1)

\* A group of the match resolved: Null for an absent group
ResolveGroup(g, cell) ==
    IF g = <<>> THEN Ok(Null) ELSE from_relative_to_absolute(g, cell)

\* VALID_R1C1_RANGE_ITEM_COMBOS, over (min_col, min_row, max_col, max_row)
VALID_R1C1_RANGE_ITEM_COMBOS ==
    { << FALSE, TRUE, FALSE, TRUE >>,
      << TRUE, FALSE, TRUE, FALSE >>,
      << TRUE, TRUE, TRUE, TRUE >> }

\* TABLE_REF_RE.match(address): a name, then [ ... ] to the end
TABLE_REF_RE(s) ==
    /\ Len(s) >= 3
    /\ s[1] # "["
    /\ Contains(s, "[")
    /\ s[Len(s)] = "]"
    /\ IndexOf(s, "[") < Len(s)

\* The two groups of TABLE_REF_RE: the text before the first [ and the
\* text between it and the closing ] at the end
TableName(s) == Take(s, IndexOf(s, "[") - 1)

TableSelector(s) == SubSeq(s, IndexOf(s, "[") + 1, Len(s) - 1)

\* The row selectors named in the code
HashAll == << "#", "A", "l", "l" >>

HashData == << "#", "D", "a", "t", "a" >>

HashHeaders == << "#", "H", "e", "a", "d", "e", "r", "s" >>

HashTotals == << "#", "T", "o", "t", "a", "l", "s" >>

ThisRow == << "#", "T", "h", "i", "s", " ", "R", "o", "w" >>

\* The tables of the model's workbook, by name: cell.excel.table(name,
\* sheet) finds a table by its name and reports the sheet it is on.  A
\* table is the attributes of openpyxl's Table the code reads.  T1 is
\* rows 1-10 with one header and one totals row; T2 and T3 have two
\* header or two totals rows; T4 has no data row; T5 has neither a
\* header nor a totals row (None and 0).
Tables ==
    [name \in { << "T", "1" >>, << "T", "2" >>, << "T", "3" >>,
                << "T", "4" >>, << "T", "5" >> } |->
        CASE name = << "T", "1" >> ->
                 [ref |-> << "A", "1", ":", "C", "1", "0" >>,
                  headerRowCount |-> 1, totalsRowCount |-> 1,
                  tableColumns |-> << << "a" >>, << "b" >>, << "c" >> >>,
                  sheet |-> << "S" >>]
          [] name = << "T", "2" >> ->
                 [ref |-> << "B", "3", ":", "D", "9" >>,
                  headerRowCount |-> 2, totalsRowCount |-> 1,
                  tableColumns |-> << << "a" >>, << "b" >>, << "c" >> >>,
                  sheet |-> << "S" >>]
          [] name = << "T", "3" >> ->
                 [ref |-> << "B", "2", ":", "C", "7" >>,
                  headerRowCount |-> 1, totalsRowCount |-> 2,
                  tableColumns |-> << << "a" >>, << "b" >> >>,
                  sheet |-> << "T" >>]
          [] name = << "T", "4" >> ->
                 [ref |-> << "A", "1", ":", "B", "2" >>,
                  headerRowCount |-> 1, totalsRowCount |-> 1,
                  tableColumns |-> << << "a" >>, << "b" >> >>,
                  sheet |-> << "T" >>]
          [] OTHER ->
                 [ref |-> << "A", "1", ":", "B", "5" >>,
                  headerRowCount |-> Null, totalsRowCount |-> 0,
                  tableColumns |-> << << "a" >>, << "b" >> >>,
                  sheet |-> << "S" >>]]

\* A group of a match: absent is Python's None
NoGroup == [present |-> FALSE, text |-> <<>>]

Group(text) == [present |-> TRUE, text |-> text]

\* ' *' at i: the position after the spaces
RECURSIVE SkipSpaces(_, _)
SkipSpaces(s, i) ==
    IF i <= Len(s) /\ s[i] = " " THEN SkipSpaces(s, i + 1) ELSE i

\* \[([^\]]+)\] at i: the text up to the first ] after the [
BracketItem(s, i) ==
    LET close == i + IndexOf(Drop(s, i + 1), "]")
    IN IF i <= Len(s) /\ s[i] = "[" /\ close > i + 1
       THEN [ok |-> TRUE, text |-> SubSeq(s, i + 1, close - 1),
             next |-> close + 1]
       ELSE [ok |-> FALSE, text |-> <<>>, next |-> i]

\* ' *<sep> *' after an item: the position after it, 0 when the item or
\* the separator is not there
SeparatedItem(s, item, sep) ==
    IF /\ item.ok
       /\ SkipSpaces(s, item.next) <= Len(s)
       /\ s[SkipSpaces(s, item.next)] = sep
    THEN SkipSpaces(s, SkipSpaces(s, item.next) + 1)
    ELSE 0

\* (\[([^\]]+)\] *, *)* from i: the positions after 0, 1, 2, ... items
RECURSIVE RowCuts(_, _)
RowCuts(s, i) ==
    LET next == SeparatedItem(s, BracketItem(s, i), ",")
    IN IF next = 0 THEN << i >> ELSE << i >> \o RowCuts(s, next)

\* (\[(?P<end_col>.+)\] *)$ at j: the group reaches to the last ], which
\* only spaces may follow
EndCol(s, j) ==
    LET e == CHOOSE i \in 0..Len(s) :
                 /\ i = 0 \/ s[i] # " "
                 /\ \A k \in (i + 1)..Len(s) : s[k] = " "
    IN IF j <= Len(s) /\ s[j] = "[" /\ e >= j + 2 /\ s[e] = "]"
       THEN Group(SubSeq(s, j + 1, e - 1))
       ELSE NoGroup

\* (\[start_col\] *: *)?(\[end_col\] *)?$ at i, each optional part taken
\* when the rest still matches; j is the position after "[start_col] : "
SelectorTail(s, i) ==
    LET item == BracketItem(s, i)
        j == SeparatedItem(s, item, ":")
    IN IF j # 0 /\ EndCol(s, j).present
       THEN [ok |-> TRUE, start_col |-> Group(item.text),
             end_col |-> EndCol(s, j)]
       ELSE IF j # 0 /\ j = Len(s) + 1
       THEN [ok |-> TRUE, start_col |-> Group(item.text), end_col |-> NoGroup]
       ELSE IF EndCol(s, i).present
       THEN [ok |-> TRUE, start_col |-> NoGroup, end_col |-> EndCol(s, i)]
       ELSE IF i = Len(s) + 1
       THEN [ok |-> TRUE, start_col |-> NoGroup, end_col |-> NoGroup]
       ELSE [ok |-> FALSE, start_col |-> NoGroup, end_col |-> NoGroup]

\* The most row items after which the rest matches, as an index of
\* cuts; 0 when the third alternative does not match
BestCut(s, cuts) ==
    IF \E k \in 1..Len(cuts) : SelectorTail(s, cuts[k]).ok
    THEN CHOOSE k \in 1..Len(cuts) :
            /\ SelectorTail(s, cuts[k]).ok
            /\ \A l \in (k + 1)..Len(cuts) : ~SelectorTail(s, cuts[l]).ok
    ELSE 0

\* rows, start_col and end_col as the code holds them
Selection(rows, start_col, end_col) ==
    Ok([rows |-> rows, start_col |-> start_col, end_col |-> end_col])

\* The groups of the third alternative.  rows is none when empty, its
\* one item, or refused when rows.split('[')[1:] has not exactly one
\* piece.
RowsGroup(rows, tail) ==
    IF rows = <<>> THEN Selection(NoGroup, tail.start_col, tail.end_col)
    ELSE IF Cardinality({ i \in 1..Len(rows) : rows[i] = "[" }) # 1
    THEN Raise("PyCelException")
    ELSE Selection(Group(BracketItem(rows, 1).text),
                   tail.start_col, tail.end_col)

ThirdAlternative(s, first, cuts, k) ==
    IF k = 0 THEN Raise("PyCelException")
    ELSE RowsGroup(SubSeq(s, first, cuts[k] - 1), SelectorTail(s, cuts[k]))

\* TABLE_SELECTOR_RE.match(selector) for a selector that is not empty,
\* and the groups the code takes from it: a text without [, then
\* @[column], then rows, start_col and end_col
SelectorMatch(s) ==
    IF ~Contains(s, "[") THEN Selection(NoGroup, NoGroup, Group(s))
    ELSE IF /\ Len(s) >= 3
            /\ s[1] = "@"
            /\ s[2] = "["
            /\ s[Len(s)] = "]"
            /\ ~Contains(SubSeq(s, 3, Len(s) - 1), "[")
    THEN IF Len(s) > 3
         THEN Selection(Group(ThisRow), NoGroup, Group(SubSeq(s, 3, Len(s) - 1)))
         ELSE Selection(NoGroup, NoGroup, NoGroup)
    ELSE ThirdAlternative(s, SkipSpaces(s, 1), RowCuts(s, SkipSpaces(s, 1)),
                          BestCut(s, RowCuts(s, SkipSpaces(s, 1))))

\* rows, start_col and end_col of a selector: all none for the empty
\* selector; otherwise those of the match, with an end_col starting with
\* # or @ taken as a row selector written as a column, or as this row's
\* column.  end_col of None has no startswith.
SelectorGroups(selector, match) ==
    IF selector = <<>> THEN Selection(NoGroup, NoGroup, NoGroup)
    ELSE IF match.k = "raise" THEN match
    ELSE IF ~match.v.end_col.present THEN Raise("AttributeError")
    ELSE IF /\ match.v.end_col.text[1] = "#"
            /\ ~match.v.rows.present
            /\ ~match.v.start_col.present
    THEN Selection(match.v.end_col, match.v.start_col, NoGroup)
    ELSE IF match.v.end_col.text[1] = "@" /\ Len(match.v.end_col.text) = 1
    THEN Selection(Group(ThisRow), match.v.start_col, match.v.start_col)
    ELSE IF match.v.end_col.text[1] = "@"
    THEN Selection(Group(ThisRow), match.v.start_col,
                   Group(Drop(match.v.end_col.text, 2)))
    ELSE match

\* table.headerRowCount if table.headerRowCount else 0
CountOrZero(count) == IF count = Null THEN 0 ELSE count

\* min_row and max_row of the selected rows; boundaries is (min_col,
\* min_row, max_col, max_row) of table.ref
RowSpan_headers_one_more(rows, boundaries, table, cell) ==
    IF ~rows.present \/ rows.text = HashData
    THEN Ok(<< boundaries[2] + CountOrZero(table.headerRowCount),
               boundaries[4] - CountOrZero(table.totalsRowCount) >>)
    ELSE IF rows.text = HashAll THEN Ok(<< boundaries[2], boundaries[4] >>)
    ELSE IF rows.text = HashHeaders
    THEN Ok(<< boundaries[2],
               boundaries[2] + CountOrZero(table.headerRowCount) >>)
    ELSE IF rows.text = HashTotals
    THEN Ok(<< boundaries[4] - CountOrZero(table.totalsRowCount) + 1,
               boundaries[4] >>)
    ELSE IF rows.text = ThisRow THEN Ok(<< cell.row, cell.row >>)
    ELSE Raise("PyCelException")

RowSpan(rows, boundaries, table, cell) ==
    IF ~rows.present \/ rows.text = HashData
    THEN Ok(<< boundaries[2] + CountOrZero(table.headerRowCount),
               boundaries[4] - CountOrZero(table.totalsRowCount) >>)
    ELSE IF rows.text = HashAll THEN Ok(<< boundaries[2], boundaries[4] >>)
    ELSE IF rows.text = HashHeaders
    THEN Ok(<< boundaries[2],
               boundaries[2] + CountOrZero(table.headerRowCount) - 1 >>)
    ELSE IF rows.text = HashTotals
    THEN Ok(<< boundaries[4] - CountOrZero(table.totalsRowCount) + 1,
               boundaries[4] >>)
    ELSE IF rows.text = ThisRow THEN Ok(<< cell.row, cell.row >>)
    ELSE Raise("PyCelException")

\* min_col_idx and max_col_idx of the selected columns: a column is at
\* boundaries[0] + the place of the first column of that name, counted
\* from 0
ColumnSpan(start_col, end_col, boundaries, tableColumns) ==
    IF ~end_col.present THEN Ok(<< boundaries[1], boundaries[3] >>)
    ELSE IF IndexOf(tableColumns, end_col.text) = 0
    THEN Raise("PyCelException")
    ELSE IF ~start_col.present
    THEN Ok(<< boundaries[1] + IndexOf(tableColumns, end_col.text) - 1,
               boundaries[1] + IndexOf(tableColumns, end_col.text) - 1 >>)
    ELSE IF IndexOf(tableColumns, start_col.text) = 0
    THEN Raise("PyCelException")
    ELSE Ok(<< boundaries[1] + IndexOf(tableColumns, start_col.text) - 1,
               boundaries[1] + IndexOf(tableColumns, end_col.text) - 1 >>)

\* The final check and the value returned
OrderedBoundaries(row_span, column_span, sheet) ==
    IF row_span.k = "raise" THEN row_span
    ELSE IF column_span.k = "raise" THEN column_span
    ELSE IF row_span.v[1] > row_span.v[2] \/ column_span.v[1] > column_span.v[2]
    THEN Raise("PyCelException")
    ELSE Ok([boundaries |-> << column_span.v[1], row_span.v[1],
                               column_span.v[2], row_span.v[2] >>,
             sheet |-> sheet])

SelectedBoundaries(groups, boundaries, table, cell) ==
    IF groups.k = "raise" THEN groups
    ELSE OrderedBoundaries(
             RowSpan(groups.v.rows, boundaries, table, cell),
             ColumnSpan(groups.v.start_col, groups.v.end_col, boundaries,
                        table.tableColumns),
             table.sheet)

\* The part of structured_reference_boundaries after the table is found
TableBoundaries(selector, boundaries, table, cell) ==
    IF boundaries.k = "raise" THEN boundaries
    ELSE IF \E i \in 1..4 : boundaries.v[i] = Null THEN Raise("AssertionError")
    ELSE SelectedBoundaries(SelectorGroups(selector, SelectorMatch(selector)),
                            boundaries.v, table, cell)

\* structured_reference_boundaries: NoneV when the text is no table
\* reference; PyCelException without a cell or for a table the workbook
\* does not hold; otherwise the rows and columns the selector picks from
\* the table, and the table's sheet
structured_reference_boundaries(address, cell, sheet) ==
    IF ~TABLE_REF_RE(address) THEN Ok(NoneV)
    ELSE IF ~cell.present THEN Raise("PyCelException")
    ELSE IF TableName(address) \notin DOMAIN Tables THEN Raise("PyCelException")
    ELSE TableBoundaries(TableSelector(address),
                         openpyxl_range_boundaries(Tables[TableName(address)].ref),
                         Tables[TableName(address)], cell)

\* The row-column strategy of range_boundaries, for a text the pattern
\* matches
R1C1Boundaries(address, m, cell, sheet) ==
    LET min_col == ResolveGroup(m.min_col, cell)
        min_row == ResolveGroup(m.min_row, cell)
        max_col == ResolveGroup(m.max_col, cell)
        max_row == ResolveGroup(m.max_row, cell)
        items_present == << m.min_col # <<>>, m.min_row # <<>>,
                            m.max_col # <<>>, m.max_row # <<>> >>
        count == Cardinality({ i \in 1..4 : items_present[i] })
        is_range == Contains(address, ":")
    IN IF min_col.k = "raise" THEN min_col
       ELSE IF min_row.k = "raise" THEN min_row
       ELSE IF max_col.k = "raise" THEN max_col
       ELSE IF max_row.k = "raise" THEN max_row
       ELSE IF \/ (is_range /\ items_present \notin VALID_R1C1_RANGE_ITEM_COMBOS)
               \/ (~is_range /\ count < 2)
       THEN Raise("ValueError")
       ELSE Ok([boundaries |->
                  << min_col.v, min_row.v,
                     IF max_col.v # Null THEN max_col.v ELSE min_col.v,
                     IF max_row.v # Null THEN max_row.v ELSE min_row.v >>,
                sheet |-> sheet])

\* The defined-name strategy: the name's text resolved on its own sheet
NamedBoundaries(name_addr, name_bounds) ==
    IF name_bounds.k = "raise" THEN name_bounds
    ELSE Ok([boundaries |-> name_bounds.v, sheet |-> name_addr.sheet])

\* The strategies in the order the code tries them: absolute is the
\* outcome of openpyxl's parser, m the match of R1C1_RANGE_RE, table the
\* outcome of structured_reference_boundaries
Strategies(address, cell, sheet, absolute, m, table) ==
    IF /\ absolute.k = "ok"
       /\ (\A i \in 1..4 : absolute.v[i] # Null) \/ Contains(address, ":")
    THEN Ok([boundaries |-> absolute.v, sheet |-> sheet])
    ELSE IF m.ok THEN R1C1Boundaries(address, m, cell, sheet)
    ELSE IF table.k = "raise" THEN table
    ELSE IF table.v # NoneV THEN table
    ELSE IF cell.present /\ address \in DOMAIN DefinedNames
    THEN NamedBoundaries(DefinedNames[address],
                         openpyxl_range_boundaries(DefinedNames[address].ref))
    ELSE Raise("ValueError")

\* range_boundaries(address, cell, sheet): the boundary tuple and the
\* sheet, or the exception
range_boundaries(address, cell, sheet) ==
    Strategies(address, cell, sheet,
               openpyxl_range_boundaries(address),
               R1C1_RANGE_RE(address),
               structured_reference_boundaries(address, cell, sheet))

(* ------------------------------------------------------------------ *)
(* AddressCell and AddressRange                                        *)
(* ------------------------------------------------------------------ *)

\* The namedtuples; kind is the class
Cell(address, sheet, col_idx, row, coordinate) ==
    [kind |-> "cell", address |-> address, sheet |-> sheet,
     col_idx |-> col_idx, row |-> row, coordinate |-> coordinate]

Range(address, sheet, start, end, coordinate) ==
    [kind |-> "range", address |-> address, sheet |-> sheet,
     start |-> start, end |-> end, coordinate |-> coordinate]

\* '{0}!{1}'.format(sheet, coordinate) if sheet else coordinate
FormatAddress(sheet, coordinate) ==
    IF sheet # <<>> THEN sheet \o << "!" >> \o coordinate ELSE coordinate

HasNull(t) == \E i \in 1..4 : t[i] = Null

\* address[0:2] == address[2:]
CornersEqual(t) == t[1] = t[3] /\ t[2] = t[4]

\* a or 0 for a component of a boundary tuple
OrZero(a) == IF a = Null THEN 0 ELSE a

\* AddressCell(address, sheet=sheet) for a boundary tuple
AddressCell_tuple(address, sheet) ==
    LET col_idx == OrZero(address[1])
        row == OrZero(address[2])
        column == IF col_idx = 0 THEN Ok(<<>>) ELSE get_column_letter(col_idx)
        coordinate == column.v \o (IF row = 0 THEN <<>> ELSE IntStr(row))
    IN IF ~(~HasNull(address) \/ CornersEqual(address))
       THEN Raise("AssertionError")
       ELSE IF column.k = "raise" THEN column
       ELSE Ok(Cell(FormatAddress(sheet, coordinate), sheet, col_idx, row,
                    coordinate))

\* The AddressRange of two corner cells on a sheet, or the exception the
\* construction of a corner raised
AddressRange_new(sheet, start, end) ==
    IF start.k = "raise" THEN start
    ELSE IF end.k = "raise" THEN end
    ELSE Ok(Range(FormatAddress(sheet, start.v.coordinate \o << ":" >>
                                         \o end.v.coordinate),
                  sheet, start.v, end.v,
                  start.v.coordinate \o << ":" >> \o end.v.coordinate))

\* AddressRange_tuple without the assertion on the boundary
AddressRange_tuple_unchecked(address, sheet) ==
    AddressRange_new(
        sheet,
        AddressCell_tuple(
            << address[1], address[2], address[1], address[2] >>, sheet),
        AddressCell_tuple(
            << address[3], address[4], address[3], address[4] >>, sheet))

\* AddressRange(address, sheet=sheet) for a boundary tuple
AddressRange_tuple(address, sheet) ==
    IF ~(HasNull(address) \/ ~CornersEqual(address))
    THEN Raise("AssertionError")
    ELSE AddressRange_new(
            sheet,
            AddressCell_tuple(
                << address[1], address[2], address[1], address[2] >>, sheet),
            AddressCell_tuple(
                << address[3], address[4], address[3], address[4] >>, sheet))

\* The end of AddressRange.create: a range for a boundary with a Null or
\* with distinct corners, a cell otherwise
CreateFromBoundaries(bounds) ==
    IF bounds.k = "raise" THEN bounds
    ELSE IF HasNull(bounds.v.boundaries) \/ ~CornersEqual(bounds.v.boundaries)
    THEN AddressRange_tuple(bounds.v.boundaries, bounds.v.sheet)
    ELSE AddressCell_tuple(bounds.v.boundaries, bounds.v.sheet)

CreateFromSplit(split, cell) ==
    IF split.k = "raise" THEN split
    ELSE CreateFromBoundaries(
            range_boundaries(split.v.address, cell, split.v.sheet))

\* AddressRange.create(address, sheet, cell) for a text
AddressRange_create_str(address, sheet, cell) ==
    CreateFromSplit(split_sheetname(address, sheet), cell)

\* The end of AddressCell.create: anything but a cell is refused
OnlyCell(addr) ==
    IF addr.k = "raise" THEN addr
    ELSE IF addr.v.kind # "cell" THEN Raise("ValueError")
    ELSE addr

\* AddressCell.create(address, sheet, cell) for a text: a cell, or
\* ValueError
AddressCell_create_str(address, sheet, cell) ==
    OnlyCell(AddressRange_create_str(address, sheet, cell))

\* AddressCell(address, sheet=sheet) for a text
AddressCell_str(address, sheet) == AddressCell_create_str(address, sheet, NoCell)

\* AddressCell_cell that moves a cell to whatever sheet is asked for
AddressCell_cell_any_sheet(address, sheet) ==
    IF sheet = <<>> \/ sheet = address.sheet THEN Ok(address)
    ELSE Ok(Cell(FormatAddress(sheet, address.coordinate), sheet,
                 address.row, address.col_idx, address.coordinate))

\* AddressCell(address, sheet=sheet) for an AddressCell: the cell itself,
\* or the cell on the sheet asked for, built from address[2:5]
AddressCell_cell(address, sheet) ==
    IF sheet = <<>> \/ sheet = address.sheet THEN Ok(address)
    ELSE IF address.sheet = <<>>
    THEN LET row == address.col_idx
             col_idx == address.row
             coordinate == address.coordinate
         IN Ok(Cell(FormatAddress(sheet, coordinate), sheet, col_idx, row,
                    coordinate))
    ELSE Raise("ValueError")

\* AddressRange(address, sheet=sheet) for an AddressRange
AddressRange_range(address, sheet) ==
    IF sheet = <<>> \/ sheet = address.sheet THEN Ok(address)
    ELSE IF address.sheet = <<>>
    THEN AddressRange_new(sheet,
                          AddressCell_str(address.start.coordinate, sheet),
                          AddressCell_str(address.end.coordinate, sheet))
    ELSE Raise("ValueError")

\* AddressRange.create(address, sheet) for a typed value
AddressRange_create(address, sheet) ==
    IF address.kind = "range" THEN AddressRange_range(address, sheet)
    ELSE AddressCell_cell(address, sheet)

\* AddressCell.inc_col, AddressCell.inc_row
inc_col(self, inc) == ((self.col_idx + inc - 1) % MAX_COL) + 1

inc_row(self, inc) == ((self.row + inc - 1) % MAX_ROW) + 1

\* AddressCell.address_at_offset(row_inc, col_inc)
address_at_offset(self, row_inc, col_inc) ==
    LET new_col == inc_col(self, col_inc)
        new_row == inc_row(self, row_inc)
    IN AddressCell_tuple(<< new_col, new_row, new_col, new_row >>, self.sheet)

(* ------------------------------------------------------------------ *)
(* The evaluator's calls of fixup                                      *)
(* ------------------------------------------------------------------ *)

\* The numbers of the model's operands reach from -MaxNum to MaxNum
MaxNum == 2

Text(s) == StrV(s)

\* Operand texts: empty, words in both cases, numeric literals, an error
\* code fixup does not look for, and the three literals it does look for
OperandTexts ==
    { <<>>,
      << "a", "b", "c" >>, << "A", "B", "C" >>, << "a", "b", "d" >>,
      << "5" >>, << "3" >>, << "0" >>, << "-", "1" >>,
      << "5", ".", "5" >>, << "2", ".", "0" >>,
      << "#", "N", "/", "A" >>,
      EMPTY, DIV0, VALUE_ERROR }

Operands ==
    { IntV(n) : n \in (-MaxNum..MaxNum) \cup {5} }
    \cup { FloatV(n, 2) : n \in (-MaxNum..MaxNum) \cup {11} }
    \cup { BoolV(TRUE), BoolV(FALSE), NoneV }
    \cup { StrV(s) : s \in OperandTexts }

\* The operators of the table, and one Python comparison it lacks
Operators == PYTHON_AST_OPERATORS \cup { "In" }

NoCall == [k |-> "none", v |-> NoneV, e |-> ""]

FixupInit ==
    /\ call_left = NoneV
    /\ call_op = ""
    /\ call_right = NoneV
    /\ result = NoCall
    /\ captured = <<>>

\* The evaluator calls fixup(l, o, r)
Call(l, o, r) ==
    /\ call_op = ""
    /\ call_left' = l
    /\ call_op' = o
    /\ call_right' = r
    /\ result' = fixup(l, o, r).ret
    /\ captured' = fixup(l, o, r).diag
    /\ UNCHANGED addr_vars

\* The evaluator takes the result and goes on to the next operator node
Consume ==
    /\ call_op # ""
    /\ call_left' = NoneV
    /\ call_op' = ""
    /\ call_right' = NoneV
    /\ result' = NoCall
    /\ captured' = <<>>
    /\ UNCHANGED addr_vars

FixupNext ==
    \/ \E l \in Operands, o \in Operators, r \in Operands : Call(l, o, r)
    \/ Consume


(* ------------------------------------------------------------------ *)
(* The caller of the coordinate model: it creates a value from a text  *)
(* or a boundary, then passes the value it holds back to create,       *)
(* re-parses its address, or offsets it                                *)
(* ------------------------------------------------------------------ *)

\* The operations applied to one value
MaxOps == 2

NoValue == [kind |-> "none"]

\* The texts handed to create and range_boundaries: absolute cells and
\* ranges (with sheets, quotes, '$' and lower case), whole rows and
\* columns, row-column references (absolute, relative, bare, ranges), a
\* bare R before C2 (the absolute cell RC2), ranges of absolute
\* components (R1:R5, C1:C5, R1:C5), defined names, table references, and
\* texts no strategy resolves
RawAddresses ==
    { << "A", "1" >>,
      << "B", "1" >>,
      << "X", "F", "D", "1", "0", "4", "8", "5", "7", "6" >>,
      << "a", "1" >>,
      << "$", "A", "$", "1" >>,
      << "S", "!", "A", "1" >>,
      << "'", "S", "'", "!", "B", "2" >>,
      << "T", "!", "B", "2" >>,
      << "A", "1", ":", "B", "2" >>,
      << "A", "1", ":", "A", "1" >>,
      << "S", "!", "A", "1", ":", "B", "2" >>,
      << "1", ":", "1" >>,
      << "1", ":", "2" >>,
      << "A", ":", "A" >>,
      << "A", ":", "B" >>,
      << "R", "[", "2", "]", "C", "[", "2", "]" >>,
      << "R", "2", "C", "2" >>,
      << "R", "C" >>,
      << "R", "[", "-", "1", "]", "C", "[", "-", "1", "]" >>,
      << "R", "C", "[", "1", "]" >>,
      << "R", "[", "-", "5", "]", "C", "3" >>,
      << "R", "0", "C", "1" >>,
      << "R", "C", "2" >>,
      << "R", "2", "C" >>,
      << "R", "[", "1", "]", "C", "[", "1", "]", ":", "R", "[", "2", "]", "C", "[", "2", "]" >>,
      << "R", "[", "1", "]", ":", "R", "[", "2", "]" >>,
      << "C", "[", "1", "]", ":", "C", "[", "1", "]" >>,
      << "R", "1", "C", "1", ":", "R", "1", "C", "1" >>,
      << "R", "1", "C", "1", ":", "R", "5", "C", "5" >>,
      << "R", "1", ":", "R", "5" >>,
      << "C", "1", ":", "C", "5" >>,
      << "R", "1", ":", "C", "5" >>,
      <<>>,
      << "A" >>,
      << "R" >>,
      << "S", "!", "T", "!", "A", "1" >>,
      << "T", "o", "t", "a", "l" >>,
      << "N", "o", "p", "e" >>,
      << "T", "b", "l", "[", "a", "]" >>,
      << "T", "1", "[", "a", "]" >> }

\* The selectors of the model: the row selectors bare and bracketed, the
\* columns of the tables and one no table has, this-row forms, rows with
\* a column or a column range, column ranges in and out of order, and
\* selectors the code refuses
Selectors ==
    { <<>>,
      << "#", "A", "l", "l" >>,
      << "#", "D", "a", "t", "a" >>,
      << "#", "H", "e", "a", "d", "e", "r", "s" >>,
      << "#", "T", "o", "t", "a", "l", "s" >>,
      << "#", "T", "h", "i", "s", " ", "R", "o", "w" >>,
      << "a" >>,
      << "b" >>,
      << "c" >>,
      << "z", "z" >>,
      << "@", "a" >>,
      << "@" >>,
      << "@", "[", "a", "]" >>,
      << "@", "[", "]" >>,
      << "[", "#", "A", "l", "l", "]" >>,
      << "[", "#", "D", "a", "t", "a", "]" >>,
      << "[", "#", "H", "e", "a", "d", "e", "r", "s", "]" >>,
      << "[", "#", "T", "o", "t", "a", "l", "s", "]" >>,
      << "[", "#", "T", "h", "i", "s", " ", "R", "o", "w", "]" >>,
      << "[", "a", "]" >>,
      << "[", "@", "a", "]" >>,
      << "[", "@", "]" >>,
      << "[", "#", "H", "e", "a", "d", "e", "r", "s", "]", ",", "[", "a", "]" >>,
      << "[", "#", "H", "e", "a", "d", "e", "r", "s", "]", ",", " ", "[", "a", "]" >>,
      << "[", "#", "T", "o", "t", "a", "l", "s", "]", ",", "[", "b", "]" >>,
      << "[", "#", "D", "a", "t", "a", "]", ",", "[", "a", "]", ":", "[", "b", "]" >>,
      << "[", "#", "A", "l", "l", "]", ",", "[", "a", "]", ":", "[", "c", "]" >>,
      << "[", "#", "T", "h", "i", "s", " ", "R", "o", "w", "]", ",", "[", "b", "]" >>,
      << "[", "a", "]", ":", "[", "b", "]" >>,
      << "[", "b", "]", ":", "[", "a", "]" >>,
      << "[", "a", "]", ":", "[", "c", "]" >>,
      << "[", "a", "]", ":", "[", "z", "z", "]" >>,
      << "[", "z", "z", "]", ":", "[", "a", "]" >>,
      << "[", "a", "]", ":", "[", "@", "]" >>,
      << "[", "#", "A", "l", "l", "]", ",", "[", "#", "D", "a", "t", "a", "]", ",", "[", "a", "]" >>,
      << "[", "x", "]", ",", "[", "a", "]" >>,
      << "[", "#", "H", "e", "a", "d", "e", "r", "s", "]", ",", "[", "#", "D", "a", "t", "a", "]" >>,
      << "[", "a", "]", "," >>,
      << "[", "a", "]", ":" >>,
      << "[" >>,
      << "[", "a", "]", ",", "x", "]" >> }

\* name[selector] for every table of the workbook and every selector
TableText(name, selector) == name \o << "[" >> \o selector \o << "]" >>

TableReferences ==
    { TableText(name, selector) : name \in DOMAIN Tables, selector \in Selectors }

Sheets == { <<>>, << "S" >>, << "T" >> }

AnchorCells == { NoCell, AnchorCell(5, 3), AnchorCell(MAX_ROW, MAX_COL) }

\* Boundary tuples handed to the constructors
Boundaries ==
    { << 1, 1, 1, 1 >>, << 1, 1, 2, 2 >>, << 2, 2, 1, 1 >>,
      << Null, 1, Null, 1 >>, << 1, Null, 1, Null >>,
      << Null, 1, Null, 2 >>, << 1, 0, 1, 0 >>, << 1, 1, 1, Null >>,
      << MAX_COL, MAX_ROW, MAX_COL, MAX_ROW >>,
      << 18279, 1, 18279, 1 >> }

Deltas == { -1, 0, 1 }

Request(name, raw, sheet, cell, bounds, row_inc, col_inc) ==
    [name |-> name, raw |-> raw, sheet |-> sheet, cell |-> cell,
     bounds |-> bounds, row_inc |-> row_inc, col_inc |-> col_inc]

NoRequest == Request("none", <<>>, <<>>, NoCell, << 0, 0, 0, 0 >>, 0, 0)

AddrInit ==
    /\ held = NoValue
    /\ previous = NoValue
    /\ request = NoRequest
    /\ returned = NoCall
    /\ steps = 0

Idle == request.name = "none" /\ call_op = ""

\* The value in hand after an operation: what it returned, else old
Held(res, old) == IF res.k = "ok" THEN res.v ELSE old

\* AddressRange.create(raw, sheet=sheet, cell=cell) for a text
Create(raw, sheet, cell) ==
    /\ Idle
    /\ request' = Request("create", raw, sheet, cell, << 0, 0, 0, 0 >>, 0, 0)
    /\ returned' = AddressRange_create_str(raw, sheet, cell)
    /\ held' = Held(returned', NoValue)
    /\ previous' = NoValue
    /\ steps' = 0
    /\ UNCHANGED fixup_vars

\* range_boundaries(raw, cell=cell, sheet=sheet)
Resolve(raw, sheet, cell) ==
    /\ Idle
    /\ request' = Request("resolve", raw, sheet, cell, << 0, 0, 0, 0 >>, 0, 0)
    /\ returned' = range_boundaries(raw, cell, sheet)
    /\ UNCHANGED << held, previous, steps >>
    /\ UNCHANGED fixup_vars

\* AddressCell(bounds, sheet=sheet)
NewCell(bounds, sheet) ==
    /\ Idle
    /\ request' = Request("AddressCell", <<>>, sheet, NoCell, bounds, 0, 0)
    /\ returned' = AddressCell_tuple(bounds, sheet)
    /\ held' = Held(returned', NoValue)
    /\ previous' = NoValue
    /\ steps' = 0
    /\ UNCHANGED fixup_vars

\* AddressRange(bounds, sheet=sheet)
NewRange(bounds, sheet) ==
    /\ Idle
    /\ request' = Request("AddressRange", <<>>, sheet, NoCell, bounds, 0, 0)
    /\ returned' = AddressRange_tuple(bounds, sheet)
    /\ held' = Held(returned', NoValue)
    /\ previous' = NoValue
    /\ steps' = 0
    /\ UNCHANGED fixup_vars

\* AddressRange.create(value, sheet=sheet) for the value in hand
Recreate(sheet) ==
    /\ held # NoValue
    /\ steps < MaxOps
    /\ request' = Request("recreate", <<>>, sheet, NoCell, << 0, 0, 0, 0 >>, 0, 0)
    /\ returned' = AddressRange_create(held, sheet)
    /\ held' = Held(returned', held)
    /\ previous' = held
    /\ steps' = steps + 1
    /\ UNCHANGED fixup_vars

\* AddressRange.create(value.address): the address text parsed again
Reparse ==
    /\ held # NoValue
    /\ steps < MaxOps
    /\ request' = Request("reparse", held.address, <<>>, NoCell,
                          << 0, 0, 0, 0 >>, 0, 0)
    /\ returned' = AddressRange_create_str(held.address, <<>>, NoCell)
    /\ held' = Held(returned', held)
    /\ previous' = held
    /\ steps' = steps + 1
    /\ UNCHANGED fixup_vars

\* value.address_at_offset(row_inc, col_inc)
Offset(row_inc, col_inc) ==
    /\ held # NoValue
    /\ held.kind = "cell"
    /\ steps < MaxOps
    /\ request' = Request("offset", <<>>, <<>>, NoCell, << 0, 0, 0, 0 >>,
                          row_inc, col_inc)
    /\ returned' = address_at_offset(held, row_inc, col_inc)
    /\ held' = Held(returned', held)
    /\ previous' = held
    /\ steps' = steps + 1
    /\ UNCHANGED fixup_vars

\* The caller lets go of the value and of the last result
Discard ==
    /\ request.name # "none"
    /\ held' = NoValue
    /\ previous' = NoValue
    /\ request' = NoRequest
    /\ returned' = NoCall
    /\ steps' = 0
    /\ UNCHANGED fixup_vars

AddrNext ==
    \/ \E raw \in RawAddresses, sheet \in Sheets, cell \in AnchorCells :
          Create(raw, sheet, cell)
    \/ \E raw \in RawAddresses \cup TableReferences, sheet \in Sheets,
          cell \in AnchorCells :
          Resolve(raw, sheet, cell)
    \/ \E bounds \in Boundaries, sheet \in Sheets : NewCell(bounds, sheet)
    \/ \E bounds \in Boundaries, sheet \in Sheets : NewRange(bounds, sheet)
    \/ \E sheet \in Sheets : Recreate(sheet)
    \/ Reparse
    \/ \E row_inc \in Deltas, col_inc \in Deltas : Offset(row_inc, col_inc)
    \/ Discard

Init == FixupInit /\ AddrInit

FixupSpec == Init /\ [][FixupNext]_vars

AddrSpec == Init /\ [][AddrNext]_vars

(* ------------------------------------------------------------------ *)
(* Properties of the coercion engine                                   *)
(* ------------------------------------------------------------------ *)

InCall == call_op # ""

HasOperand(x) == call_left = StrV(x) \/ call_right = StrV(x)

Dominated == HasOperand(DIV0) \/ HasOperand(VALUE_ERROR)

IsErrorResult == result.k = "ok" /\ result.v \in {StrV(DIV0), StrV(VALUE_ERROR)}

\* C1: error dominance.  Whatever the operator, a call with a
\* division-by-zero operand returns the division-by-zero code, and a call
\* with a value-type operand and no division-by-zero operand returns the
\* value-type code, in either operand position.
C1_ErrorDominance ==
    InCall =>
        /\ HasOperand(DIV0) => result = Ok(StrV(DIV0))
        /\ (~HasOperand(DIV0) /\ HasOperand(VALUE_ERROR))
              => result = Ok(StrV(VALUE_ERROR))

\* Both codes are present, the value-type code first, and division-by-zero
\* wins; the operator is one the table lacks.
C1_Witness ==
    /\ call_op = "In"
    /\ call_left = StrV(VALUE_ERROR)
    /\ call_right = StrV(DIV0)
    /\ result = Ok(StrV(DIV0))

\* C2: the coercion engine never raises.  Every call with an operator of
\* the operator table returns a value or an error code.
C2_NeverRaises ==
    (InCall /\ call_op \in PYTHON_AST_OPERATORS) => result.k = "ok"

\* The operands of an equality after blank substitution
EqLeft == BlankSubstitute(call_left, call_right)

EqRight == BlankSubstitute(call_right, EqLeft)

EqualityCall == InCall /\ call_op \in {"Eq", "NotEq"} /\ ~Dominated

EqualityResult(eq) == Ok(BoolV(IF call_op = "Eq" THEN eq ELSE ~eq))

\* C3 as claimed: equals and not-equals compare two texts without regard
\* to case, and otherwise coerce both operands to numbers before they
\* compare them by value.
C3_EqualityCoercesNumbers ==
    EqualityCall =>
        result = EqualityResult(
            IF IsStr(EqLeft) /\ IsStr(EqRight)
            THEN Lower(EqLeft.s) = Lower(EqRight.s)
            ELSE PyEq(coerce_to_number(EqLeft).v, coerce_to_number(EqRight).v))

\* C3 as amended: equals and not-equals compare two texts without regard
\* to case, and otherwise compare the operands by value as they stand after
\* blank substitution, with no numeric coercion.
C3_EqualityByValue ==
    EqualityCall =>
        result = EqualityResult(
            IF IsStr(EqLeft) /\ IsStr(EqRight)
            THEN Lower(EqLeft.s) = Lower(EqRight.s)
            ELSE PyEq(EqLeft, EqRight))

\* The text "5" and the number 5 compare unequal.
C3_Witness ==
    /\ call_op = "Eq"
    /\ call_left = StrV(<< "5" >>)
    /\ call_right = IntV(5)
    /\ result = Ok(BoolV(FALSE))

\* What a call with operands l and r returns and captures
Outcome(l, o, r) == [ret |-> fixup(l, o, r).ret, diag |-> fixup(l, o, r).diag]

BlankCall == InCall /\ ~Dominated /\ (IsBlank(call_left) \/ IsBlank(call_right))

\* The claimed substitute of operand v: 0, unless the other operand is
\* non-empty text
ClaimedSubstitute(v, other) ==
    IF ~IsBlank(v) THEN v
    ELSE IF IsStr(other) /\ other.s # <<>> /\ ~IsBlank(other)
    THEN StrV(<<>>) ELSE IntV(0)

\* The substitute as amended: 0, unless the other operand is text, empty
\* or not (and not the empty sentinel)
AmendedSubstitute(v, other) ==
    IF ~IsBlank(v) THEN v
    ELSE IF IsStr(other) /\ ~IsBlank(other) THEN StrV(<<>>) ELSE IntV(0)

\* C4 as claimed: a call with an empty operand returns and captures what
\* the call does whose empty operands are replaced by 0, or by empty text
\* when the other operand is non-empty text.
C4_BlankUnlessNonEmptyText ==
    BlankCall =>
        [ret |-> result, diag |-> captured]
            = Outcome(ClaimedSubstitute(call_left, call_right), call_op,
                      ClaimedSubstitute(call_right, call_left))

\* C4 as amended: a call with an empty operand returns and captures what
\* the call does whose empty operands are replaced by 0, or by empty text
\* when the other operand is text, empty text included.
C4_BlankUnlessText ==
    BlankCall =>
        [ret |-> result, diag |-> captured]
            = Outcome(AmendedSubstitute(call_left, call_right), call_op,
                      AmendedSubstitute(call_right, call_left))

\* An empty operand added to empty text is empty text, not a value fault.
C4_Witness ==
    /\ call_op = "Add"
    /\ call_left = NoneV
    /\ call_right = StrV(<<>>)
    /\ result = Ok(StrV(<<>>))
    /\ captured = <<>>

\* C5 as claimed: a call that returns an error code has invoked the
\* diagnostics callback, and a call that returns an ordinary value has not.
C5_EveryFaultCaptured ==
    (InCall /\ result.k = "ok") =>
        IF IsErrorResult THEN Len(captured) >= 1 ELSE captured = <<>>

\* C5 as amended: a call that returns an error code for a fault of its own
\* (a division by zero, a type mismatch, a text operand of a
\* multiplication) has invoked the callback exactly once; a call that
\* returns the error code of an operand, or an ordinary value, or that
\* raises, has not invoked it.
C5_OwnFaultsCaptured ==
    InCall =>
        IF IsErrorResult /\ ~Dominated
        THEN Len(captured) = 1
        ELSE captured = <<>>

\* A division-by-zero operand comes back with no diagnostic.
C5_Witness ==
    /\ call_op = "Add"
    /\ call_left = StrV(DIV0)
    /\ call_right = IntV(1)
    /\ result = Ok(StrV(DIV0))
    /\ captured = <<>>

(* ------------------------------------------------------------------ *)
(* Properties of the coordinate model                                  *)
(* ------------------------------------------------------------------ *)

\* A cell inside the sheet
InSheet(c) == c.row \in 1..MAX_ROW /\ c.col_idx \in 1..MAX_COL

\* The last operation was address_at_offset on a cell inside the sheet
OffsetCall == request.name = "offset" /\ InSheet(previous)

\* C6: offset wraparound.  address_at_offset of a cell inside the sheet
\* returns a cell on the same sheet whose row and column are the cell's,
\* moved by the deltas modulo the sheet's size, inside the sheet; and the
\* opposite offset of the result is the original cell.
C6_OffsetWraparound ==
    OffsetCall =>
        /\ returned.k = "ok"
        /\ returned.v.kind = "cell"
        /\ returned.v.sheet = previous.sheet
        /\ returned.v.row
              = ((previous.row - 1 + request.row_inc) % MAX_ROW) + 1
        /\ returned.v.col_idx
              = ((previous.col_idx - 1 + request.col_inc) % MAX_COL) + 1
        /\ InSheet(returned.v)
        /\ address_at_offset(returned.v, -request.row_inc, -request.col_inc)
              = Ok(previous)

\* The last operation was a create that returned a value
ProducedByCreate ==
    request.name \in {"create", "recreate", "reparse"} /\ returned.k = "ok"

\* C7: address round trip.  The address of every value create returns,
\* parsed by create, is that value.
C7_AddressRoundTrip ==
    ProducedByCreate =>
        AddressRange_create_str(returned.v.address, <<>>, NoCell) = returned

\* The last operation built a value: create of a text or of a typed
\* value, or a constructor given a boundary
Constructed ==
    /\ request.name \in {"create", "recreate", "reparse",
                         "AddressCell", "AddressRange"}
    /\ returned.k = "ok"

ConstructedRange == Constructed /\ returned.v.kind = "range"

EndsOnSheet ==
    /\ returned.v.start.sheet = returned.v.sheet
    /\ returned.v.end.sheet = returned.v.sheet

\* C8 as claimed: every Range built has a start that differs from its end,
\* both on the Range's sheet.
C8_NoDegenerateRange ==
    ConstructedRange => (returned.v.start # returned.v.end /\ EndsOnSheet)

\* C8 as amended: every Range built has its start and its end on the
\* Range's sheet, and a start that differs from its end unless the Range
\* is a whole row or a whole column (its start has a 0 row or a 0 column).
C8_NoDegenerateBox ==
    ConstructedRange =>
        /\ EndsOnSheet
        /\ returned.v.start = returned.v.end
              => (returned.v.start.col_idx = 0 \/ returned.v.start.row = 0)

\* The single row 1:1 is a Range whose start is its end.
C8_Witness ==
    /\ request.name = "create"
    /\ request.raw = << "1", ":", "1" >>
    /\ ConstructedRange
    /\ returned.v.start = returned.v.end
    /\ returned.v.start.row = 1
    /\ returned.v.start.col_idx = 0

\* The sheet name a text gives before its '!', unquoted
EmbeddedSheet(raw) == unquote_sheetname(Take(raw, IndexOf(raw, "!") - 1))

\* A text with exactly one '!'
HasSheetPart(raw) ==
    /\ Contains(raw, "!")
    /\ ~Contains(Drop(raw, IndexOf(raw, "!") + 1), "!")

\* Two sheet names that are both given and differ
Conflict(a, b) == a # <<>> /\ b # <<>> /\ a # b

\* C9: pass-through and sheet conflict.  create of a typed value with a
\* blank sheet or with the value's own sheet returns the value; with
\* another sheet than the value's non-blank sheet it raises ValueError and
\* the caller is left with the value it had.  create of a text whose sheet
\* part conflicts with the sheet asked for raises ValueError.
C9_PassThroughOrConflict ==
    /\ request.name = "recreate" =>
          /\ (request.sheet = <<>> \/ request.sheet = previous.sheet)
                => (returned = Ok(previous) /\ held = previous)
          /\ Conflict(previous.sheet, request.sheet)
                => (returned = Raise("ValueError") /\ held = previous)
    /\ ( /\ request.name = "create"
         /\ HasSheetPart(request.raw)
         /\ Conflict(EmbeddedSheet(request.raw), request.sheet) )
          => (returned = Raise("ValueError") /\ held = NoValue)

\* A range on sheet S asked for on sheet T is refused.
C9_Witness ==
    /\ request.name = "recreate"
    /\ previous # NoValue
    /\ previous.kind = "range"
    /\ previous.sheet = << "S" >>
    /\ request.sheet = << "T" >>
    /\ returned = Raise("ValueError")
    /\ held = previous

\* The components of a row-column reference: relative with a delta,
\* absolute with an index, or bare
ComponentSpecs ==
    ({"relative"} \X (-5..5)) \cup ({"absolute"} \X (0..5)) \cup {<< "bare", 0 >>}

\* The text of a component for the letter R or C
ComponentText(letter, c) ==
    CASE c[1] = "relative" -> << letter, "[" >> \o IntStr(c[2]) \o << "]" >>
      [] c[1] = "absolute" -> << letter >> \o NatStr(c[2])
      [] OTHER -> << letter >>

\* What a component resolves to, for the anchor's index and the sheet's
\* size along that axis
Resolved(c, anchor_idx, max) ==
    CASE c[1] = "relative" -> ((anchor_idx + c[2] - 1) % max) + 1
      [] c[1] = "absolute" -> c[2]
      [] OTHER -> anchor_idx

\* The text of a row and a column component is a row-column reference,
\* but for a bare R before an absolute column: RC2 is the absolute
\* notation's cell in column RC
RowColumnText(rc, cc) == ~(rc[1] = "bare" /\ cc[1] = "absolute")

ComponentRange(first, n, second, m) ==
    << first >> \o NatStr(n) \o << ":", second >> \o NatStr(m)

\* The text of a box of absolute components, such as R1C1:R5C5
ComponentBox(r1, c1, r2, c2) ==
    << "R" >> \o NatStr(r1) \o << "C" >> \o NatStr(c1) \o << ":", "R" >>
        \o NatStr(r2) \o << "C" >> \o NatStr(c2)

Resolving(raw) == request.name = "resolve" /\ request.raw = raw

ResolvedTo(bounds) ==
    returned = Ok([boundaries |-> bounds, sheet |-> request.sheet])

\* C11: row-column range validity.  A box R<a>C<b>:R<c>C<d> resolves to
\* the box, R<n>:R<m> to the rows n to m with no column, C<n>:C<m> to the
\* columns n to m with no row, and R<n>:C<m>, a row against a column,
\* raises and returns no boundary.
C11_RangeValidity ==
    \A n \in 1..5, m \in 1..5 :
        /\ Resolving(ComponentBox(n, n, m, m)) => ResolvedTo(<< n, n, m, m >>)
        /\ Resolving(ComponentRange("R", n, "R", m))
              => ResolvedTo(<< Null, n, Null, m >>)
        /\ Resolving(ComponentRange("C", n, "C", m))
              => ResolvedTo(<< n, Null, m, Null >>)
        /\ Resolving(ComponentRange("R", n, "C", m)) => returned.k = "raise"

\* A strategy resolves a text when it returns a boundary for it
AbsoluteResolves(address, absolute) ==
    /\ absolute.k = "ok"
    /\ (\A i \in 1..4 : absolute.v[i] # Null) \/ Contains(address, ":")

RowColumnResolves(address, m, cell, sheet) ==
    m.ok /\ R1C1Boundaries(address, m, cell, sheet).k = "ok"

TableResolves(table) == table.k = "ok" /\ table.v # NoneV

FirstThreeResolve(address, cell, sheet) ==
    \/ AbsoluteResolves(address, openpyxl_range_boundaries(address))
    \/ RowColumnResolves(address, R1C1_RANGE_RE(address), cell, sheet)
    \/ TableResolves(structured_reference_boundaries(address, cell, sheet))

NameKnown(address, cell) == cell.present /\ address \in DOMAIN DefinedNames

StoredBoundary(name_addr) ==
    NamedBoundaries(name_addr, openpyxl_range_boundaries(name_addr.ref))

\* C12: strategy chain with first-success short-circuit.  A text that
\* none of the absolute, row-column and table strategies resolves and
\* that the workbook of the anchor knows as a defined name resolves to
\* the boundary of the name's stored text and the name's stored sheet;
\* the invalid-reference error is raised only when no strategy, the
\* defined-name lookup included, matches.
C12_StrategyChain ==
    request.name = "resolve" =>
        /\ (/\ NameKnown(request.raw, request.cell)
            /\ ~FirstThreeResolve(request.raw, request.cell, request.sheet))
              => returned = StoredBoundary(DefinedNames[request.raw])
        /\ returned = Raise("ValueError")
              => /\ ~NameKnown(request.raw, request.cell)
                 /\ ~FirstThreeResolve(request.raw, request.cell, request.sheet)

\* The boundary (min_col, min_row, max_col, max_row) of a table's ref
TableBoundary(name) == openpyxl_range_boundaries(Tables[name].ref).v

\* A row selector as the whole selector and as its one bracketed item
SelectorForms(rows) ==
    IF rows = <<>> THEN { <<>> } ELSE { rows, << "[" >> \o rows \o << "]" >> }

\* Resolving name[rows] with an anchor returns the rows lo to hi
SelectsRows(name, rows, lo, hi) ==
    \A selector \in SelectorForms(rows) :
        (Resolving(TableText(name, selector)) /\ request.cell.present)
            => /\ returned.k = "ok"
               /\ returned.v.boundaries[2] = lo
               /\ returned.v.boundaries[4] = hi

\* The rows the resolver gives for name[rows] with the given anchor
RowsOfBoundary(outcome) == outcome.v.boundaries[2]..outcome.v.boundaries[4]

SpanOf(name, rows, cell) ==
    RowsOfBoundary(structured_reference_boundaries(TableText(name, rows),
                                                   cell, <<>>))

HeaderDataTotalsPartition(headers, data, totals, all) ==
    /\ headers \cap data = {}
    /\ headers \cap totals = {}
    /\ data \cap totals = {}
    /\ headers \cup data \cup totals = all

RowPartition(name, r1, r2, h, t) ==
    /\ SelectsRows(name, HashHeaders, r1, r1 + h - 1)
    /\ SelectsRows(name, HashTotals, r2 - t + 1, r2)
    /\ SelectsRows(name, HashData, r1 + h, r2 - t)
    /\ SelectsRows(name, <<>>, r1 + h, r2 - t)
    /\ SelectsRows(name, HashAll, r1, r2)
    /\ (/\ request.name = "resolve"
        /\ request.cell.present
        /\ request.raw \in { TableText(name, selector) : selector \in Selectors })
          => HeaderDataTotalsPartition(SpanOf(name, HashHeaders, request.cell),
                                       SpanOf(name, HashData, request.cell),
                                       SpanOf(name, HashTotals, request.cell),
                                       SpanOf(name, HashAll, request.cell))

HasRowPartition(r1, r2, h, t) == h >= 1 /\ t >= 1 /\ h + t < r2 - r1 + 1

\* The selector [first]:[last]
ColumnRange(first, last) ==
    << "[" >> \o first \o << "]", ":", "[" >> \o last \o << "]" >>

\* The column ranges of a table whose first column is after its last
ReversedColumns(name) ==
    { TableText(name, ColumnRange(Tables[name].tableColumns[p[2]],
                                  Tables[name].tableColumns[p[1]])) :
        p \in { q \in (1..Len(Tables[name].tableColumns))
                        \X (1..Len(Tables[name].tableColumns)) : q[1] < q[2] } }

NoDataRow(r1, r2, h, t) == r1 + h > r2 - t

OutOfOrderRefused(name, r1, r2, h, t) ==
    /\ (/\ NoDataRow(r1, r2, h, t)
        /\ Resolving(TableText(name, HashData))
        /\ request.cell.present) => returned = Raise("PyCelException")
    /\ (/\ request.name = "resolve"
        /\ request.raw \in ReversedColumns(name)
        /\ request.cell.present) => returned = Raise("PyCelException")

\* C13: structured-reference row partition.  For every table with
\* boundary rows r1..r2, h >= 1 header rows and t >= 1 totals rows with
\* h + t < r2 - r1 + 1, the header selector resolves to rows r1..r1+h-1,
\* the totals selector to r2-t+1..r2, the data selector and the empty
\* selector to r1+h..r2-t and the all-rows selector to r1..r2; the
\* header, data and totals rows are pairwise disjoint and together are
\* the all-rows span.  Every boundary the structured resolver returns
\* has min_row <= max_row and min_col <= max_col; a selection out of
\* order is refused with the module's exception.
C13_RowPartition ==
    /\ \A name \in DOMAIN Tables :
          /\ HasRowPartition(TableBoundary(name)[2], TableBoundary(name)[4],
                             Tables[name].headerRowCount,
                             Tables[name].totalsRowCount)
                => RowPartition(name, TableBoundary(name)[2],
                                TableBoundary(name)[4],
                                Tables[name].headerRowCount,
                                Tables[name].totalsRowCount)
          /\ OutOfOrderRefused(name, TableBoundary(name)[2],
                               TableBoundary(name)[4],
                               CountOrZero(Tables[name].headerRowCount),
                               CountOrZero(Tables[name].totalsRowCount))
    /\ (/\ request.name = "resolve"
        /\ request.raw \in TableReferences
        /\ returned.k = "ok")
          => /\ returned.v.boundaries[2] <= returned.v.boundaries[4]
             /\ returned.v.boundaries[1] <= returned.v.boundaries[3]

\* C13 witness: the data rows of the table of rows 1-10 with one header
\* and one totals row have been resolved to rows 2-9
C13_Witness ==
    /\ Resolving(TableText(<< "T", "1" >>, HashData))
    /\ request.cell.present
    /\ returned = Ok([boundaries |-> << 1, 2, 3, 9 >>, sheet |-> << "S" >>])

\* The column letters of col_idx followed by row
DerivedCoordinate(col_idx, row) ==
    ColumnLetters(col_idx) \o (IF row = 0 THEN <<>> ELSE IntStr(row))

CoordinateConsistent(c) ==
    c.kind = "cell" => c.coordinate = DerivedCoordinate(c.col_idx, c.row)

\* The last operation was create(c, s) for a Cell c of blank sheet and a
\* sheet s that is not blank
Resheeting ==
    /\ request.name = "recreate"
    /\ previous.kind = "cell"
    /\ previous.sheet = <<>>
    /\ request.sheet # <<>>

\* C14: re-sheeting preserves coordinates.  create(c, s) for a Cell c of
\* blank sheet and a sheet s that is not blank returns a Cell on s whose
\* column index, row index and coordinate are those of c and whose
\* address is s!coordinate; and every Cell reached through create calls
\* has the coordinate its column index and row index give.
C14_ResheetingPreservesCoordinates ==
    /\ Resheeting =>
          /\ returned.k = "ok"
          /\ returned.v.kind = "cell"
          /\ returned.v.sheet = request.sheet
          /\ returned.v.col_idx = previous.col_idx
          /\ returned.v.row = previous.row
          /\ returned.v.coordinate = previous.coordinate
          /\ returned.v.address
                = request.sheet \o << "!" >> \o previous.coordinate
    /\ (held # NoValue /\ request.name \in { "create", "recreate" })
          => CoordinateConsistent(held)

====
